---- MODULE Spec2Model ----
(***************************************************************************)
(* Model resource lifecycle of the image generation service:               *)
(* core/models_loader.py (the three module-level slots, get_or_load_*,      *)
(* unload_model, unload_models), core/ml_models.py (the generate_* /        *)
(* upscale_image use-cycles) and the two policy settings read from          *)
(* setting_api/settings_management.py.                                      *)
(***************************************************************************)
EXTENDS Integers, Sequences, FiniteSets, TLC

\* ------------------------------------------------------------------ bounds
\* Number of pipeline constructions (entries of the try block of a
\* get_or_load_* function) a behaviour may perform.
MaxConstructions == 2

\* ------------------------------------------------------- fixed vocabulary
Categories == {"text_to_image", "image_editing", "upscaler"}

\* Model identifiers a caller may pass for a category.  upscale_image always
\* passes its hard-coded identifier.
UpscalerDefaultId == "stabilityai/stable-diffusion-x4-upscaler"
ModelIds == {"model-A", "model-B", UpscalerDefaultId}
RequestIds(c) ==
    IF c = "upscaler" THEN {UpscalerDefaultId, "model-B"} ELSE {"model-A", "model-B"}

\* Python's None for an identifier and for a pipeline object.
NoneId == "None"
NoneModel == [serial |-> 0, id |-> NoneId, cat |-> "None",
              offload |-> FALSE, device |-> "None"]

\* Devices get_device can select.
Devices == {"cuda", "xpu", "cpu"}

\* What the host advertises: torch.cuda.is_available(), torch.xpu.is_available().
HostCaps == [cuda : BOOLEAN, xpu : BOOLEAN]

\* Every pipeline object a behaviour can construct.
Pipelines ==
    {[serial |-> n, id |-> x, cat |-> c, offload |-> o, device |-> d] :
        n \in 1..MaxConstructions, x \in ModelIds, c \in Categories,
        o \in BOOLEAN, d \in Devices}

\* Request-serving contexts.  The endpoints are coroutines that call the
\* blocking generate_* functions without awaiting, so the event loop runs
\* one use-cycle at a time: SeqProcs is the single context in use then.
AllProcs == {1, 2}
SeqProcs == {1}

\* Values the admin endpoint accepts for the two policy settings; "absent"
\* is a key missing from the settings file.
RetentionValues == {"keep", "reload"}
OffloadValues == {"true", "false"}
Absent == "absent"

\* Where construction can fail inside the try block.
FailStages == {"resolve", "from_pretrained", "configure"}

VARIABLES
    model,          \* _model / _image_editing_model / _upscaler_model
    model_id,       \* _model_id / _image_editing_model_id / _upscaler_model_id
    settings,       \* content of application_settings.json (the two keys)
    pc,             \* position of each request context
    kind,           \* which entry point the context is running
    cat,            \* category the context works on
    req,            \* model_id argument
    inner,          \* local _inner_model
    ret,            \* pipeline returned by get_or_load_* (local _model / upscaler)
    out,            \* how the running operation ended
    constructions,  \* number of pipeline constructions begun so far
    built,          \* constructions begun by the running operation
    pol,            \* retention in force during the running operation
    res,            \* was an instance built from req resident at call time
    snap,           \* the slot as get_or_load_* left it when it returned
    rel,            \* retention in force when the release code ran
    last,           \* most recent completed operation
    changed,        \* retention in force changed since that operation ended
    caps,           \* accelerators the host advertises
    obs,            \* what the running operation did: settings read, placement
                    \* calls issued, failure cause and error raised
    env,            \* the process environment's four token variables
    call            \* the latest call of a stateless helper and its result

vars == <<model, model_id, settings, pc, kind, cat, req, inner, ret, out,
          constructions, built, pol, res, snap, rel, last, changed, caps, obs,
          env, call>>

\* Variables of one request context.
locals == <<pc, kind, cat, req, inner, ret, out, built, pol, res, snap, rel, obs>>

\* ------------------------------------------------------ settings helpers
get_setting_absent_as_set(s, key) ==
    IF s[key] = Absent
    THEN (IF key = "use_cpu_offloading" THEN "true" ELSE "reload")
    ELSE s[key]

get_setting(s, key) == IF s[key] = Absent THEN NoneId ELSE s[key]

\* Python's == on JSON values: the booleans true and false equal the
\* numbers 1 and 0.
PyEq(a, b) ==
    \/ a = b
    \/ {a, b} = {"true", "1"}
    \/ {a, b} = {"false", "0"}

\* Python's "v in [...]".
PyIn(v, list) == \E e \in list : PyEq(v, e)

is_use_cpu_offload_enabled(s) == PyEq(get_setting(s, "use_cpu_offloading"), "true")

is_model_retentation_reload_never(s) == FALSE

is_model_retentation_reload(s) ==
    get_setting(s, "model_load_retentation_strategy") = "reload"

\* The retention policy the stored strategy stands for.
Retention(s) ==
    IF s["model_load_retentation_strategy"] = "reload" THEN "reload" ELSE "keep"

\* ------------------------------------------------------- device helpers
\* get_device(): CUDA, else XPU, else CPU.
get_device_xpu_first(cp) ==
    IF cp.xpu THEN "xpu" ELSE IF cp.cuda THEN "cuda" ELSE "cpu"

get_device(cp) == IF cp.cuda THEN "cuda" ELSE IF cp.xpu THEN "xpu" ELSE "cpu"

\* -------------------------------------------------------- token helpers
\* The environment variables resolve_hf_token probes, in its order.
EnvVars == <<"HUGGINGFACE_HUB_TOKEN", "HF_HUB_TOKEN", "HF_TOKEN", "HUGGINGFACE_TOKEN">>

EnvNames == {EnvVars[i] : i \in 1..Len(EnvVars)}

\* os.environ.get(name): None for an unset variable, else its value.
EnvValues == {NoneId, "", "env-token-1", "env-token-2"}

\* The hf_token argument: None, empty or a token.
ExplicitTokens == {NoneId, "", "explicit-token"}

\* No token variable is set.
NoEnv == [v \in EnvNames |-> NoneId]

\* Python truth of an Optional[str].
Truthy(v) == v # NoneId /\ v # ""

\* The for loop of resolve_hf_token over the four variables.
ProbeEnv_reversed(e) ==
    IF Truthy(e[EnvVars[4]]) THEN e[EnvVars[4]]
    ELSE IF Truthy(e[EnvVars[3]]) THEN e[EnvVars[3]]
    ELSE IF Truthy(e[EnvVars[2]]) THEN e[EnvVars[2]]
    ELSE IF Truthy(e[EnvVars[1]]) THEN e[EnvVars[1]]
    ELSE NoneId

ProbeEnv(e) ==
    IF Truthy(e[EnvVars[1]]) THEN e[EnvVars[1]]
    ELSE IF Truthy(e[EnvVars[2]]) THEN e[EnvVars[2]]
    ELSE IF Truthy(e[EnvVars[3]]) THEN e[EnvVars[3]]
    ELSE IF Truthy(e[EnvVars[4]]) THEN e[EnvVars[4]]
    ELSE NoneId

resolve_hf_token_env_first(t, e) ==
    IF ProbeEnv(e) # NoneId THEN ProbeEnv(e) ELSE IF Truthy(t) THEN t ELSE NoneId

resolve_hf_token(t, e) == IF Truthy(t) THEN t ELSE ProbeEnv(e)

\* ------------------------------------------------- quantization helpers
NoConfig == [load_in_4bit |-> FALSE, quant_type |-> "none",
             use_double_quant |-> FALSE, compute_type |-> "none"]

\* get_bnb_4bit_config(): the branch is on torch.cuda.is_available().
get_bnb_4bit_config(cp) ==
    IF cp.cuda
    THEN [load_in_4bit |-> TRUE, quant_type |-> "nf4",
          use_double_quant |-> TRUE, compute_type |-> "float16"]
    ELSE [load_in_4bit |-> TRUE, quant_type |-> "nf4",
          use_double_quant |-> FALSE, compute_type |-> "float32"]

\* No helper has been called yet.
NoCall == [fn |-> "none", n |-> 0, arg |-> NoneId, tok |-> NoneId,
           dev |-> "None", cfg |-> NoConfig, key |-> "none", status |-> "none"]

\* Offload configuration and residency a freshly built pipeline of category
\* c gets: the text-to-image and image-editing loaders consult the offload
\* setting, the upscaler loader always moves the pipeline to the device.
Placement(c, s, cp) ==
    IF c # "upscaler" /\ is_use_cpu_offload_enabled(s)
    THEN [offload |-> TRUE, device |-> "cpu"]
    ELSE [offload |-> FALSE, device |-> get_device(cp)]

\* The pipeline the n-th construction yields.
NewPipeline(n, x, c, s, cp) ==
    [serial |-> n, id |-> x, cat |-> c,
     offload |-> Placement(c, s, cp).offload, device |-> Placement(c, s, cp).device]

\* from_pretrained returned but offload / placement raised: the pipeline
\* exists only as the local _inner_model and has no residency yet.
UnplacedPipeline(n, x, c) ==
    [serial |-> n, id |-> x, cat |-> c, offload |-> FALSE, device |-> "None"]

\* Identifiers of the SD3 family: "model-A" stands for an identifier that
\* contains "sd3", "model-B" and the default upscaler for ones that do not.
SD3Ids == {"model-A"}

\* "sd3" in model_id.lower()
IsSD3(x) == x \in SD3Ids

\* Whether a construction calls create_sd3_transformer_2d_model_4bit: the
\* text-to-image and image-editing loaders pass transformer= always, the
\* upscaler loader only for an identifier that contains "sd3".
BuildsSD3Transformer(c, x) == IF c = "upscaler" THEN IsSD3(x) ELSE TRUE

\* "return _model" on a cache hit: the cached object as it is.
HitResult_replaced(m, s, cp) ==
    [m EXCEPT !.offload = Placement(m.cat, s, cp).offload,
              !.device = Placement(m.cat, s, cp).device]

HitResult(m, s, cp) == m

\* RuntimeError(f"Could not load model '{model_id}'.") from e
NoError == [id |-> NoneId, cause |-> "none"]

RaisedError_anonymous(x, stage) == [id |-> NoneId, cause |-> stage]

RaisedError(x, stage) == [id |-> x, cause |-> stage]

\* Nothing observed yet of an operation.
NoObs == [read |-> FALSE, off |-> "none", placed |-> 0, cause |-> "none",
          err |-> NoError, pub |-> "none", sd3 |-> FALSE]

\* --------------------------------------------------------- slot helpers
Empty(c) == model[c] = NoneModel /\ model_id[c] = NoneId

AllIdle == \A p \in AllProcs : pc[p] = "idle"

NoEvent == [op |-> "none", cat |-> "None", id |-> NoneId, inst |-> NoneModel,
            out |-> "none", built |-> 0, pol |-> "none", res |-> FALSE,
            pub |-> "none"]

\* "if _model is not None and _model_id == model_id": the cache-hit test.
IsCacheHit_inverted(m, mid, x) == m # NoneModel /\ mid # x

IsCacheHit_anyid(m, mid, x) == m # NoneModel

IsCacheHit_by_id_only(m, mid, x) == mid = x

IsCacheHit(m, mid, x) == m # NoneModel /\ mid = x

\* "if _model is not None and _model_id != model_id: _model = None": the
\* slot's instance after the switch branch.
AfterSwitch_retained(m, mid, x) == m

AfterSwitch(m, mid, x) == IF m # NoneModel /\ mid # x THEN NoneModel ELSE m

\* The value the retention branch assigns to the slot's instance.
PublishedModel_always(im, s) == im

PublishedModel(im, s) ==
    IF ~is_model_retentation_reload(s) THEN im ELSE NoneModel

\* The except handler's two assignments, as <<model, model_id>>.
except_reset_instance_only(ms, ids, c) ==
    <<[ms EXCEPT ![c] = NoneModel], ids>>

except_reset_skipped(ms, ids, c) == <<ms, ids>>

except_reset_all_slots(ms, ids, c) ==
    <<[d \in Categories |-> NoneModel], [d \in Categories |-> NoneId]>>

except_reset(ms, ids, c) ==
    <<[ms EXCEPT ![c] = NoneModel], [ids EXCEPT ![c] = NoneId]>>

\* unload_model(model): the slots after the call, as <<model, model_id>>.
unload_model_noop(ms, ids, m) == <<ms, ids>>

unload_model_instance_only(ms, ids, m) ==
    <<[c \in Categories |-> IF ms[c] = m THEN NoneModel ELSE ms[c]], ids>>

unload_model_by_category(ms, ids, m) ==
    IF m.cat \in Categories
    THEN <<[ms EXCEPT ![m.cat] = NoneModel], [ids EXCEPT ![m.cat] = NoneId]>>
    ELSE <<ms, ids>>

unload_model_every_slot(ms, ids, m) ==
    IF \E c \in Categories : ms[c] = m
    THEN <<[c \in Categories |-> NoneModel], [c \in Categories |-> NoneId]>>
    ELSE <<ms, ids>>

unload_model(ms, ids, m) ==
    IF m = ms["text_to_image"]
    THEN <<[ms EXCEPT !["text_to_image"] = NoneModel],
           [ids EXCEPT !["text_to_image"] = NoneId]>>
    ELSE IF m = ms["image_editing"]
    THEN <<[ms EXCEPT !["image_editing"] = NoneModel],
           [ids EXCEPT !["image_editing"] = NoneId]>>
    ELSE IF m = ms["upscaler"]
    THEN <<[ms EXCEPT !["upscaler"] = NoneModel],
           [ids EXCEPT !["upscaler"] = NoneId]>>
    ELSE <<ms, ids>>

\* unload_models(): every slot whose instance is present is cleared.
unload_models(ms, ids) ==
    <<[c \in Categories |-> NoneModel],
      [c \in Categories |-> IF ms[c] # NoneModel THEN NoneId ELSE ids[c]]>>

\* ------------------------------------------------------------------ Init
InitState ==
    /\ model = [c \in Categories |-> NoneModel]
    /\ model_id = [c \in Categories |-> NoneId]
    /\ settings = [use_cpu_offloading |-> Absent,
                   model_load_retentation_strategy |-> Absent]
    /\ pc = [p \in AllProcs |-> "idle"]
    /\ kind = [p \in AllProcs |-> "none"]
    /\ cat = [p \in AllProcs |-> "None"]
    /\ req = [p \in AllProcs |-> NoneId]
    /\ inner = [p \in AllProcs |-> NoneModel]
    /\ ret = [p \in AllProcs |-> NoneModel]
    /\ out = [p \in AllProcs |-> "none"]
    /\ constructions = 0
    /\ built = [p \in AllProcs |-> 0]
    /\ pol = [p \in AllProcs |-> "none"]
    /\ res = [p \in AllProcs |-> FALSE]
    /\ snap = [p \in AllProcs |-> <<NoneModel, NoneId>>]
    /\ rel = [p \in AllProcs |-> "none"]
    /\ last = NoEvent
    /\ changed = FALSE
    /\ obs = [p \in AllProcs |-> NoObs]

\* The service starts with empty slots, here on a CUDA host.
Init ==
    /\ InitState
    /\ caps = [cuda |-> TRUE, xpu |-> FALSE]
    /\ env = NoEnv
    /\ call = NoCall

\* --------------------------------------------------------------- actions
\* Entry into an operation of context p on category c with identifier x.
Enter(p, k, c, x) ==
    /\ pc[p] = "idle"
    /\ constructions < MaxConstructions
    /\ pc' = [pc EXCEPT ![p] = "check"]
    /\ kind' = [kind EXCEPT ![p] = k]
    /\ cat' = [cat EXCEPT ![p] = c]
    /\ req' = [req EXCEPT ![p] = x]
    /\ pol' = [pol EXCEPT ![p] = Retention(settings)]
    /\ res' = [res EXCEPT ![p] = model[c] # NoneModel /\ model[c].id = x]
    /\ UNCHANGED <<model, model_id, settings, inner, ret, out, constructions,
                   built, snap, rel, last, changed, caps, env, call, obs>>

\* A caller enters get_or_load_model / get_or_load_image_editing_model /
\* get_or_load_upscaler_model directly (generate_image.py, image_gen_shell.py).
CallGetOrLoad(p, c, x) ==
    /\ x \in RequestIds(c)
    /\ Enter(p, "acquire", c, x)

\* A caller enters generate_text_to_image / generate_image_to_image /
\* upscale_image; the first thing each does is the get_or_load_* call.
CallGenerate(p, c, x) ==
    /\ x \in RequestIds(c)
    /\ c = "upscaler" => x = UpscalerDefaultId
    /\ Enter(p, "cycle", c, x)

\* get_or_load_* returns pipeline m to its caller, leaving the slots at
\* <<ms, ids>>: a direct caller is done, a use-cycle goes on to invoke it.
Returns(p, m, ms, ids) ==
    /\ ret' = [ret EXCEPT ![p] = m]
    /\ snap' = [snap EXCEPT ![p] = <<ms[cat[p]], ids[cat[p]]>>]
    /\ out' = [out EXCEPT ![p] = IF kind[p] = "acquire" THEN "ok" ELSE out[p]]
    /\ pc' = [pc EXCEPT ![p] = IF kind[p] = "acquire" THEN "end" ELSE "invoke"]

\* Constructions other contexts have already committed to.
Loading == Cardinality({q \in AllProcs : pc[q] = "load"})

\* get_or_load_*: the cache-hit test and the switch branch.  The miss branch
\* is taken only while the construction budget lasts.
GetOrLoadCheck(p) ==
    /\ pc[p] = "check"
    /\ LET c == cat[p] IN
       IF IsCacheHit(model[c], model_id[c], req[p])
       THEN /\ pc' = [pc EXCEPT ![p] = "hit"]
            /\ UNCHANGED model
       ELSE /\ constructions + Loading < MaxConstructions
            /\ model' = [model EXCEPT ![c] = AfterSwitch(model[c], model_id[c], req[p])]
            /\ pc' = [pc EXCEPT ![p] = "load"]
    /\ UNCHANGED <<model_id, settings, kind, cat, req, inner, ret, out,
                   constructions, built, pol, res, snap, rel, last, changed,
                   caps, env, call, obs>>

\* get_or_load_*: "return _model" of the hit branch, a read of the slot
\* separate from the reads of the test.
GetOrLoadHit(p) ==
    /\ pc[p] = "hit"
    /\ Returns(p, HitResult(model[cat[p]], settings, caps), model, model_id)
    /\ UNCHANGED <<model, model_id, settings, kind, cat, req, inner,
                   constructions, built, pol, res, rel, last, changed, caps, env, call, obs>>

\* get_or_load_*: the body of the try block up to the placement call.  The
\* construction either yields a pipeline or raises at one of FailStages.
GetOrLoadConstruct(p) ==
    /\ pc[p] = "load"
    /\ constructions' = constructions + 1
    /\ built' = [built EXCEPT ![p] = built[p] + 1]
    /\ \/ /\ inner' = [inner EXCEPT ![p] =
                         NewPipeline(constructions + 1, req[p], cat[p], settings, caps)]
          /\ obs' = [obs EXCEPT ![p].read = (cat[p] # "upscaler"),
                                ![p].off = settings["use_cpu_offloading"],
                                ![p].placed = obs[p].placed + 1,
                                ![p].sd3 = BuildsSD3Transformer(cat[p], req[p])]
          /\ pc' = [pc EXCEPT ![p] = "setid"]
       \/ \E stage \in FailStages :
          /\ inner' = [inner EXCEPT ![p] =
                         IF stage = "configure"
                         THEN UnplacedPipeline(constructions + 1, req[p], cat[p])
                         ELSE NoneModel]
          /\ obs' = [obs EXCEPT ![p].read = (stage = "configure" /\ cat[p] # "upscaler"),
                                ![p].off = settings["use_cpu_offloading"],
                                ![p].cause = stage,
                                ![p].sd3 = (stage = "configure"
                                            /\ BuildsSD3Transformer(cat[p], req[p]))]
          /\ pc' = [pc EXCEPT ![p] = "except"]
    /\ UNCHANGED <<model, model_id, settings, kind, cat, req, ret, out, pol,
                   res, snap, rel, last, changed, caps, env, call>>

\* get_or_load_*: the identifier is recorded.
GetOrLoadSetId(p) ==
    /\ pc[p] = "setid"
    /\ model_id' = [model_id EXCEPT ![cat[p]] = req[p]]
    /\ pc' = [pc EXCEPT ![p] = "publish"]
    /\ UNCHANGED <<model, settings, kind, cat, req, inner, ret, out,
                   constructions, built, pol, res, snap, rel, last, changed,
                   caps, env, call, obs>>

\* get_or_load_*: the retention branch; the instance is cached unless the
\* strategy read now is 'reload'.  Either way the new pipeline is returned.
GetOrLoadPublish(p) ==
    /\ pc[p] = "publish"
    /\ model' = [model EXCEPT ![cat[p]] = PublishedModel(inner[p], settings)]
    /\ Returns(p, inner[p], model', model_id)
    /\ obs' = [obs EXCEPT ![p].pub = Retention(settings)]
    /\ UNCHANGED <<model_id, settings, kind, cat, req, inner, constructions,
                   built, pol, res, rel, last, changed, caps, env, call>>

\* get_or_load_*: the except handler resets the slot and raises RuntimeError,
\* which generate_* lets propagate.
GetOrLoadExcept(p) ==
    /\ pc[p] = "except"
    /\ model' = except_reset(model, model_id, cat[p])[1]
    /\ model_id' = except_reset(model, model_id, cat[p])[2]
    /\ out' = [out EXCEPT ![p] = "load_failed"]
    /\ obs' = [obs EXCEPT ![p].err = RaisedError(req[p], obs[p].cause)]
    /\ pc' = [pc EXCEPT ![p] = "end"]
    /\ UNCHANGED <<settings, kind, cat, req, inner, ret, constructions, built,
                   pol, res, snap, rel, last, changed, caps, env, call>>

\* generate_* / upscale_image: the None check and the pipeline invocation,
\* which returns images or raises; the except clause logs and re-raises.
\* upscale_image first calls .to(device) on the pipeline it was handed.
GenerateInvoke(p) ==
    /\ pc[p] = "invoke"
    /\ obs' = [obs EXCEPT ![p].placed =
                  IF cat[p] = "upscaler" /\ ret[p] # NoneModel
                  THEN obs[p].placed + 1 ELSE obs[p].placed]
    /\ \/ /\ ret[p] # NoneModel
          /\ pc' = [pc EXCEPT ![p] = "release"]
          /\ UNCHANGED out
       \/ /\ out' = [out EXCEPT ![p] = "invoke_failed"]
          /\ pc' = [pc EXCEPT ![p] = "end"]
    /\ UNCHANGED <<model, model_id, settings, kind, cat, req, inner, ret,
                   constructions, built, pol, res, snap, rel, last, changed, caps, env, call>>

\* generate_* / upscale_image: "Cleanup model if preference is set", then
\* the images are returned.
GenerateRelease(p) ==
    /\ pc[p] = "release"
    /\ IF is_model_retentation_reload(settings)
       THEN /\ model' = unload_model(model, model_id, ret[p])[1]
            /\ model_id' = unload_model(model, model_id, ret[p])[2]
       ELSE UNCHANGED <<model, model_id>>
    /\ rel' = [rel EXCEPT ![p] = Retention(settings)]
    /\ out' = [out EXCEPT ![p] = "ok"]
    /\ pc' = [pc EXCEPT ![p] = "end"]
    /\ UNCHANGED <<settings, kind, cat, req, inner, ret, constructions, built,
                   pol, res, snap, last, changed, caps, env, call, obs>>

\* The entry point of context p hands control back to its caller: its
\* locals are dropped and the completed operation is recorded.
Return(p) ==
    /\ pc[p] = "end"
    /\ last' = [op |-> kind[p], cat |-> cat[p], id |-> req[p], inst |-> ret[p],
                out |-> out[p], built |-> built[p], pol |-> pol[p], res |-> res[p],
                pub |-> obs[p].pub]
    /\ changed' = FALSE
    /\ pc' = [pc EXCEPT ![p] = "idle"]
    /\ kind' = [kind EXCEPT ![p] = "none"]
    /\ cat' = [cat EXCEPT ![p] = "None"]
    /\ req' = [req EXCEPT ![p] = NoneId]
    /\ inner' = [inner EXCEPT ![p] = NoneModel]
    /\ ret' = [ret EXCEPT ![p] = NoneModel]
    /\ out' = [out EXCEPT ![p] = "none"]
    /\ built' = [built EXCEPT ![p] = 0]
    /\ pol' = [pol EXCEPT ![p] = "none"]
    /\ res' = [res EXCEPT ![p] = FALSE]
    /\ snap' = [snap EXCEPT ![p] = <<NoneModel, NoneId>>]
    /\ rel' = [rel EXCEPT ![p] = "none"]
    /\ obs' = [obs EXCEPT ![p] = NoObs]
    /\ UNCHANGED <<model, model_id, settings, constructions, caps, env, call>>

\* Pipelines a caller can hand to unload_model: those resident in a slot and
\* the one the last operation returned.
Holdable == {model[c] : c \in Categories} \cup {last.inst}

\* A caller invokes models_loader.unload_model with a pipeline it holds.
UnloadModel(m) ==
    /\ AllIdle
    /\ m \in Holdable
    /\ model' = unload_model(model, model_id, m)[1]
    /\ model_id' = unload_model(model, model_id, m)[2]
    /\ last' = [NoEvent EXCEPT !.op = "unload_model", !.inst = m, !.out = "ok",
                                !.cat = m.cat, !.res = (model[m.cat] = m)]
    /\ changed' = FALSE
    /\ UNCHANGED <<settings, constructions, locals, caps, env, call>>

\* A caller unloads one of the pipelines it can hold.
UnloadHeld == \E m \in Holdable \ {NoneModel} : UnloadModel(m)

\* A caller invokes models_loader.unload_models.
UnloadModels ==
    /\ AllIdle
    /\ model' = unload_models(model, model_id)[1]
    /\ model_id' = unload_models(model, model_id)[2]
    /\ last' = [NoEvent EXCEPT !.op = "unload_models", !.out = "ok"]
    /\ changed' = FALSE
    /\ UNCHANGED <<settings, constructions, locals, caps, env, call>>

\* POST /admin/settings/{key} with an accepted value: add_or_update_setting.
\* A running operation that spans a change of policy no longer ran under one.
SetSetting(key, value) ==
    /\ settings[key] # value
    /\ settings' = [settings EXCEPT ![key] = value]
    /\ pol' = [p \in AllProcs |->
                 IF pc[p] # "idle" /\ pol[p] # Retention(settings')
                 THEN "mixed" ELSE pol[p]]
    /\ changed' = (changed \/ Retention(settings') # Retention(settings))
    /\ UNCHANGED <<model, model_id, pc, kind, cat, req, inner, ret, out,
                   constructions, built, res, snap, rel, last, caps, env, call, obs>>

Next ==
    \/ \E p \in SeqProcs, c \in Categories, x \in ModelIds : CallGetOrLoad(p, c, x)
    \/ \E p \in SeqProcs, c \in Categories, x \in ModelIds : CallGenerate(p, c, x)
    \/ \E p \in SeqProcs : GetOrLoadCheck(p)
    \/ \E p \in SeqProcs : GetOrLoadHit(p)
    \/ \E p \in SeqProcs : GetOrLoadConstruct(p)
    \/ \E p \in SeqProcs : GetOrLoadSetId(p)
    \/ \E p \in SeqProcs : GetOrLoadPublish(p)
    \/ \E p \in SeqProcs : GetOrLoadExcept(p)
    \/ \E p \in SeqProcs : GenerateInvoke(p)
    \/ \E p \in SeqProcs : GenerateRelease(p)
    \/ \E p \in SeqProcs : Return(p)
    \/ UnloadHeld
    \/ UnloadModels
    \/ \E v \in RetentionValues : SetSetting("model_load_retentation_strategy", v)

Spec == Init /\ [][Next]_vars

\* ------------------------------------------- placement specification
\* Keep retention stays in force; the host may be any of the four capability
\* combinations and the offload setting changes at any time.
InitPlacement ==
    /\ InitState
    /\ caps \in HostCaps
    /\ env = NoEnv
    /\ call = NoCall

NextPlacement ==
    \/ \E p \in SeqProcs, c \in Categories, x \in ModelIds : CallGetOrLoad(p, c, x)
    \/ \E p \in SeqProcs, c \in Categories, x \in ModelIds : CallGenerate(p, c, x)
    \/ \E p \in SeqProcs : GetOrLoadCheck(p)
    \/ \E p \in SeqProcs : GetOrLoadHit(p)
    \/ \E p \in SeqProcs : GetOrLoadConstruct(p)
    \/ \E p \in SeqProcs : GetOrLoadSetId(p)
    \/ \E p \in SeqProcs : GetOrLoadPublish(p)
    \/ \E p \in SeqProcs : GetOrLoadExcept(p)
    \/ \E p \in SeqProcs : GenerateInvoke(p)
    \/ \E p \in SeqProcs : GenerateRelease(p)
    \/ \E p \in SeqProcs : Return(p)
    \/ \E v \in OffloadValues : SetSetting("use_cpu_offloading", v)

SpecPlacement == InitPlacement /\ [][NextPlacement]_vars

\* --------------------------------------- stateless helper specification
\* The helpers the loaders call, on any host, under any assignment of the
\* token variables, with the text-to-image slot empty or loaded.
InitQueries ==
    /\ caps \in HostCaps
    /\ env \in [EnvNames -> EnvValues]
    /\ call = NoCall
    /\ settings = [use_cpu_offloading |-> Absent,
                   model_load_retentation_strategy |-> Absent]
    /\ \E loaded \in BOOLEAN :
          /\ model = [c \in Categories |->
                        IF loaded /\ c = "text_to_image"
                        THEN NewPipeline(1, "model-A", c, settings, caps)
                        ELSE NoneModel]
          /\ model_id = [c \in Categories |->
                           IF loaded /\ c = "text_to_image" THEN "model-A" ELSE NoneId]
          /\ constructions = IF loaded THEN 1 ELSE 0
    /\ pc = [p \in AllProcs |-> "idle"]
    /\ kind = [p \in AllProcs |-> "none"]
    /\ cat = [p \in AllProcs |-> "None"]
    /\ req = [p \in AllProcs |-> NoneId]
    /\ inner = [p \in AllProcs |-> NoneModel]
    /\ ret = [p \in AllProcs |-> NoneModel]
    /\ out = [p \in AllProcs |-> "none"]
    /\ built = [p \in AllProcs |-> 0]
    /\ pol = [p \in AllProcs |-> "none"]
    /\ res = [p \in AllProcs |-> FALSE]
    /\ snap = [p \in AllProcs |-> <<NoneModel, NoneId>>]
    /\ rel = [p \in AllProcs |-> "none"]
    /\ last = NoEvent
    /\ changed = FALSE
    /\ obs = [p \in AllProcs |-> NoObs]

\* resolve_hf_token(t) is called and returns.
ResolveToken(t) ==
    /\ call' = [NoCall EXCEPT !.fn = "resolve_hf_token", !.n = 1 - call.n,
                              !.arg = t, !.tok = resolve_hf_token(t, env)]
    /\ UNCHANGED <<model, model_id, settings, constructions, locals, last,
                   changed, caps, env>>

\* get_device() is called and returns.
GetDevice ==
    /\ call' = [NoCall EXCEPT !.fn = "get_device", !.n = 1 - call.n,
                              !.dev = get_device(caps)]
    /\ UNCHANGED <<model, model_id, settings, constructions, locals, last,
                   changed, caps, env>>

\* get_bnb_4bit_config() is called and returns.
GetBnbConfig ==
    /\ call' = [NoCall EXCEPT !.fn = "get_bnb_4bit_config", !.n = 1 - call.n,
                              !.cfg = get_bnb_4bit_config(caps)]
    /\ UNCHANGED <<model, model_id, settings, constructions, locals, last,
                   changed, caps, env>>

NextQueries ==
    \/ \E t \in ExplicitTokens : ResolveToken(t)
    \/ GetDevice
    \/ GetBnbConfig

SpecQueries == InitQueries /\ [][NextQueries]_vars

\* ------------------------------------------ admin settings specification
\* JSON values a POST to /admin/settings/{key} can carry under "value":
\* the booleans, numbers, strings, and null (also a body without "value").
PostedValues == {"true", "false", "1", "0", "2", "keep", "reload", "other", "null"}

\* The two policy settings.
PolicyKeys == {"use_cpu_offloading", "model_load_retentation_strategy"}

\* set_setting(key, value): the response status and the store afterwards.
set_setting(s, key, v) ==
    IF key = "use_cpu_offloading" /\ ~PyIn(v, {"true", "false"})
    THEN [status |-> "400", settings |-> s]
    ELSE IF key = "model_load_retentation_strategy" /\ ~PyIn(v, {"keep", "reload"})
    THEN [status |-> "400", settings |-> s]
    ELSE [status |-> "200", settings |-> [s EXCEPT ![key] = v]]

\* An administrator posts value v for setting key.
PostSetting(key, v) ==
    /\ settings' = set_setting(settings, key, v).settings
    /\ call' = [NoCall EXCEPT !.fn = "set_setting", !.n = 1 - call.n,
                              !.key = key, !.arg = v,
                              !.status = set_setting(settings, key, v).status]
    /\ UNCHANGED <<model, model_id, constructions, locals, last, changed,
                   caps, env>>

NextAdmin == \E key \in PolicyKeys, v \in PostedValues : PostSetting(key, v)

SpecAdmin == Init /\ [][NextAdmin]_vars

\* ------------------------------------------ concurrent specification
\* A host that dispatches requests to several threads: the steps of two
\* request contexts interleave freely; nothing in the loader serialises them.
\* Both contexts work on the same slot.
ConcCategory == "text_to_image"

NextConc ==
    \/ \E p \in AllProcs, x \in ModelIds : CallGenerate(p, ConcCategory, x)
    \/ \E p \in AllProcs : GetOrLoadCheck(p)
    \/ \E p \in AllProcs : GetOrLoadHit(p)
    \/ \E p \in AllProcs : GetOrLoadConstruct(p)
    \/ \E p \in AllProcs : GetOrLoadSetId(p)
    \/ \E p \in AllProcs : GetOrLoadPublish(p)
    \/ \E p \in AllProcs : GetOrLoadExcept(p)
    \/ \E p \in AllProcs : GenerateInvoke(p)
    \/ \E p \in AllProcs : GenerateRelease(p)
    \/ \E p \in AllProcs : Return(p)
    \/ \E v \in RetentionValues : SetSetting("model_load_retentation_strategy", v)

SpecConc == Init /\ [][NextConc]_vars

TypeOK ==
    /\ \A c \in Categories : model_id[c] \in ModelIds \cup {NoneId}
    /\ constructions \in 0..MaxConstructions

\* ------------------------------------------------- observation predicates
\* get_or_load_* has just returned a pipeline to context p.
AcqReturned(p) ==
    \/ kind[p] = "acquire" /\ pc[p] = "end" /\ out[p] = "ok"
    \/ kind[p] = "cycle" /\ pc[p] = "invoke"

\* get_or_load_* has just raised in context p.
AcqFailed(p) == pc[p] = "end" /\ out[p] = "load_failed"

\* The use-cycle of context p is over (returned images or raised).
CycleEnded(p) == kind[p] = "cycle" /\ pc[p] = "end"

\* The operation completed just before the running one was a successful
\* acquire (on its own or inside a use-cycle) on category c.
LastAcquired(c) ==
    /\ last.op \in {"acquire", "cycle"}
    /\ last.cat = c
    /\ last.out \in {"ok", "invoke_failed"}

\* Retention was Keep from the start of the last operation until now.
KeepThroughout(p) == last.pol = "keep" /\ ~changed /\ pol[p] = "keep"

\* Retention was Reload from the start of the last operation until now.
ReloadThroughout(p) == last.pol = "reload" /\ ~changed /\ pol[p] = "reload"

\* ------------------------------------------------------------------ C1
\* C1: while retention is Keep, the second of two consecutive successful
\* acquires of the same identifier on a category returns the instance the
\* first one returned and begins no construction.
C1_IdentityCaching ==
    \A p \in AllProcs :
        (/\ AcqReturned(p)
         /\ LastAcquired(cat[p])
         /\ last.id = req[p]
         /\ KeepThroughout(p))
        => (ret[p] = last.inst /\ ret[p] # NoneModel /\ built[p] = 0)

C1_Witness ==
    \E p \in AllProcs :
        /\ AcqReturned(p)
        /\ LastAcquired(cat[p])
        /\ last.id = req[p]
        /\ KeepThroughout(p)
        /\ last.built = 1
        /\ ret[p] = last.inst

\* ------------------------------------------------------------------ C2
\* C2: under Keep, after a successful acquire of X a successful acquire of
\* Y # X on the same category leaves the slot holding Y's instance under
\* identifier Y, and the slot no longer references X's instance.
C2_SwitchEvicts ==
    \A p \in AllProcs :
        (/\ AcqReturned(p)
         /\ LastAcquired(cat[p])
         /\ last.id # req[p]
         /\ KeepThroughout(p))
        => (/\ model[cat[p]] = ret[p]
            /\ ret[p].id = req[p]
            /\ model_id[cat[p]] = req[p]
            /\ model[cat[p]] # last.inst)

C2_Witness ==
    \E p \in AllProcs :
        /\ AcqReturned(p)
        /\ LastAcquired(cat[p])
        /\ last.id # req[p]
        /\ KeepThroughout(p)
        /\ last.inst # NoneModel
        /\ model[cat[p]].id = req[p]

\* ------------------------------------------------------------------ C3
\* C3: when an acquire raises because construction failed, the slot is
\* Empty; the acquire of the same identifier that follows begins a new
\* construction and, when it succeeds, returns an instance built by it.
C3_FailureLeavesNoResidue ==
    \A p \in AllProcs :
        /\ AcqFailed(p) => Empty(cat[p])
        /\ (/\ AcqReturned(p) \/ AcqFailed(p)
            /\ last.op \in {"acquire", "cycle"}
            /\ last.out = "load_failed"
            /\ last.cat = cat[p]
            /\ last.id = req[p])
           => built[p] = 1
        /\ (/\ AcqReturned(p)
            /\ last.op \in {"acquire", "cycle"}
            /\ last.out = "load_failed"
            /\ last.cat = cat[p]
            /\ last.id = req[p])
           => (ret[p].serial = constructions /\ ret[p].id = req[p])

C3_Witness ==
    \E p \in AllProcs :
        /\ AcqReturned(p)
        /\ last.op \in {"acquire", "cycle"}
        /\ last.out = "load_failed"
        /\ last.cat = cat[p]
        /\ last.id = req[p]
        /\ ret[p].serial = 2

\* ------------------------------------------------------------------ C4
\* C4 as stated: while retention is Reload, a use-cycle of X followed by an
\* acquire of X begins two constructions, whatever the slot held before.
C4_Original ==
    \A p \in AllProcs :
        (/\ AcqReturned(p)
         /\ last.op = "cycle"
         /\ last.out = "ok"
         /\ last.cat = cat[p]
         /\ last.id = req[p]
         /\ ReloadThroughout(p))
        => last.built + built[p] = 2

\* C4 amended: while retention is Reload, a use-cycle of X followed by an
\* acquire of X begins two constructions when the slot did not hold X's
\* instance at the start, and exactly one (the second acquire's) when X's
\* instance was resident, cached earlier under Keep.
C4_ReloadForcesReconstruction ==
    \A p \in AllProcs :
        (/\ AcqReturned(p)
         /\ last.op = "cycle"
         /\ last.out = "ok"
         /\ last.cat = cat[p]
         /\ last.id = req[p]
         /\ ReloadThroughout(p))
        => (/\ built[p] = 1
            /\ ret[p] # last.inst
            /\ last.built + built[p] = IF last.res THEN 1 ELSE 2)

C4_Witness ==
    \E p \in AllProcs :
        /\ AcqReturned(p)
        /\ last.op = "cycle"
        /\ last.out = "ok"
        /\ last.cat = cat[p]
        /\ last.id = req[p]
        /\ ReloadThroughout(p)
        /\ ~last.res
        /\ last.built + built[p] = 2

\* ------------------------------------------------------------------ C5
\* C5: under Reload a complete use-cycle leaves the slot Empty (no instance,
\* no identifier), and the second of two such cycles of one identifier
\* started from an Empty slot brings the construction count to 2.
C5_ReloadCycleLeavesEmpty ==
    \A p \in AllProcs :
        /\ (CycleEnded(p) /\ out[p] = "ok" /\ pol[p] = "reload")
           => Empty(cat[p])
        /\ (/\ CycleEnded(p) /\ out[p] = "ok"
            /\ last.op = "cycle" /\ last.out = "ok"
            /\ last.cat = cat[p] /\ last.id = req[p]
            /\ ~last.res
            /\ ReloadThroughout(p))
           => last.built + built[p] = 2

\* ------------------------------------------------------------------ C6
\* C6: between operations every slot has an instance if and only if it has
\* a loaded identifier.
C6_SlotInvariant ==
    AllIdle =>
        \A c \in Categories : (model[c] # NoneModel) <=> (model_id[c] # NoneId)

\* ------------------------------------------------------------------ C7
\* C7: a slot references one instance at most, and from the moment the
\* construction of a new pipeline can begin until it is published the slot
\* references no instance: the previous one was dropped before.
C7_EvictBeforeLoad ==
    \A p \in AllProcs :
        /\ pc[p] \in {"load", "setid", "publish", "except"}
           => model[cat[p]] = NoneModel
        /\ AcqReturned(p) => model[cat[p]] \in {NoneModel, ret[p]}

C7_Witness ==
    \E p \in AllProcs :
        /\ pc[p] = "load"
        /\ LastAcquired(cat[p])
        /\ last.id # req[p]
        /\ last.inst # NoneModel
        /\ KeepThroughout(p)

\* ------------------------------------------------------------------ C8
\* C8: whenever a use-cycle ends while retention is Reload, by returning or
\* by raising, the slot of its category holds no instance.
C8_ReloadReleaseAfterEveryBorrow ==
    \A p \in AllProcs :
        (CycleEnded(p) /\ pol[p] = "reload") => model[cat[p]] = NoneModel

\* ------------------------------------------------------------------ C9
\* C9: when the release code of a use-cycle reads Reload the slot is Empty
\* afterwards; when it reads Keep the slot's instance and identifier are
\* what they were when the acquire returned.
C9_ReleaseSemantics ==
    \A p \in AllProcs :
        /\ (CycleEnded(p) /\ rel[p] = "reload") => Empty(cat[p])
        /\ (CycleEnded(p) /\ rel[p] = "keep")
           => <<model[cat[p]], model_id[cat[p]]>> = snap[p]

\* ------------------------------------------------------------------ C10
\* C10: the retention setting in force when a use-cycle releases, not the
\* one in force at load time, decides eviction: a cycle that releases under
\* Reload leaves no instance in the slot even if the instance was cached
\* under Keep, a cycle that releases under Keep evicts nothing, and an
\* acquire that constructs while the setting is Keep caches what it built
\* even if the operation before it ran under Reload.
C10_RetentionPerCall ==
    \A p \in AllProcs :
        /\ (CycleEnded(p) /\ rel[p] = "reload")
           => (model[cat[p]] = NoneModel /\ \A c \in Categories : model[c] # ret[p])
        /\ (CycleEnded(p) /\ rel[p] = "keep") => model[cat[p]] = snap[p][1]
        /\ (AcqReturned(p) /\ built[p] = 1 /\ pol[p] = "keep")
           => model[cat[p]] = ret[p]

C10_Witness ==
    \E p \in AllProcs :
        /\ CycleEnded(p)
        /\ rel[p] = "reload"
        /\ LastAcquired(cat[p])
        /\ last.pol = "keep"
        /\ changed
        /\ ret[p] = last.inst
        /\ snap[p][1] = ret[p]
        /\ model[cat[p]] = NoneModel

\* ----------------------------------------------------------------- C11
\* C11: while retention is Keep, the second of two consecutive acquires of
\* the same identifier is a cache hit that returns the cached instance with
\* the offload configuration and residency it was built with, whatever the
\* offload setting is by then, and neither reads the offload setting nor
\* issues a placement call.
C11_HitIgnoresOffloadSetting ==
    \A p \in AllProcs :
        (/\ AcqReturned(p)
         /\ LastAcquired(cat[p])
         /\ last.id = req[p]
         /\ KeepThroughout(p))
        => (/\ ret[p] = last.inst
            /\ ret[p].offload = last.inst.offload
            /\ ret[p].device = last.inst.device
            /\ model[cat[p]] = last.inst
            /\ ~obs[p].read
            /\ obs[p].placed = 0)

C11_Witness ==
    \E p \in AllProcs :
        /\ AcqReturned(p)
        /\ LastAcquired(cat[p])
        /\ last.id = req[p]
        /\ KeepThroughout(p)
        /\ cat[p] # "upscaler"
        /\ last.built = 1
        /\ ret[p] # NoneModel
        /\ ret[p].offload # is_use_cpu_offload_enabled(settings)

\* ----------------------------------------------------------------- C12
\* C12: for every category, a pipeline built with the offload setting true
\* is staged for offload with initial residency CPU, and a pipeline built
\* otherwise resides on the device the device selector returns.
C12_PlacementAtConstruction ==
    \A p \in AllProcs :
        (AcqReturned(p) /\ built[p] = 1 /\ ret[p] # NoneModel)
        => IF obs[p].off = "true"
           THEN ret[p].offload /\ ret[p].device = "cpu"
           ELSE ~ret[p].offload /\ ret[p].device = get_device(caps)

\* ----------------------------------------------------------------- C13
\* C13: an operation that was handed a pipeline issues as many placement
\* calls on it as constructions it began: none on a cache hit, exactly one
\* for a pipeline it built, in the use-cycles of every category.
C13_PlacementOnlyAtConstruction ==
    \A p \in AllProcs :
        (pc[p] \in {"release", "end"} /\ ret[p] # NoneModel)
        => obs[p].placed = built[p]

\* ----------------------------------------------------------------- C14
\* C14: once unload_models has run, all three slots are Empty: no instance
\* and no identifier, whatever state it was called in.
C14_UnloadModelsEmptiesAll ==
    (AllIdle /\ last.op = "unload_models") => \A c \in Categories : Empty(c)

\* ----------------------------------------------------------------- C15
\* C15: unload_model on a resident instance and unload_models on slots that
\* hold instances make those slots Empty, and applying the same unload a
\* second time leaves all three slots as the first application left them.
C15_UnloadIdempotent ==
    [][AllIdle =>
       /\ last'.op = "unload_model" =>
              /\ model[last'.inst.cat] = last'.inst =>
                     (/\ model'[last'.inst.cat] = NoneModel
                      /\ model_id'[last'.inst.cat] = NoneId)
              /\ unload_model(model', model_id', last'.inst) = <<model', model_id'>>
       /\ last'.op = "unload_models" =>
              /\ \A c \in Categories :
                     model[c] # NoneModel =>
                         (model'[c] = NoneModel /\ model_id'[c] = NoneId)
              /\ unload_models(model', model_id') = <<model', model_id'>>]_vars

C15_Witness ==
    /\ AllIdle
    /\ last.op = "unload_model"
    /\ last.res
    /\ Empty(last.cat)
    /\ unload_model(model, model_id, last.inst) = <<model, model_id>>

\* ----------------------------------------------------------------- C16
\* C16: unload_model given the resident instance of one category empties
\* that category's slot and leaves the instance and the identifier of the
\* other two slots as they were, as an administrative call and as the
\* release at the end of a use-cycle.
C16_UnloadModelFrame ==
    [][/\ (/\ AllIdle
           /\ last'.op = "unload_model"
           /\ model[last'.inst.cat] = last'.inst) =>
              /\ model'[last'.inst.cat] = NoneModel
              /\ model_id'[last'.inst.cat] = NoneId
              /\ \A c \in Categories \ {last'.inst.cat} :
                     model'[c] = model[c] /\ model_id'[c] = model_id[c]
       /\ \A p \in AllProcs :
            (/\ pc[p] = "release"
             /\ pc'[p] = "end"
             /\ is_model_retentation_reload(settings)
             /\ model[cat[p]] = ret[p]) =>
              /\ model'[cat[p]] = NoneModel
              /\ model_id'[cat[p]] = NoneId
              /\ \A c \in Categories \ {cat[p]} :
                     model'[c] = model[c] /\ model_id'[c] = model_id[c]]_vars

C16_Witness ==
    /\ AllIdle
    /\ last.op = "unload_model"
    /\ last.res
    /\ Empty(last.cat)
    /\ \E c \in Categories \ {last.cat} : model[c] # NoneModel /\ model_id[c] = model[c].id

C18_FailureSurfaced ==
    \A p \in AllProcs :
        /\ built[p] <= 1
        /\ (pc[p] = "end" /\ obs[p].cause # "none")
           => (/\ out[p] = "load_failed"
               /\ ret[p] = NoneModel
               /\ obs[p].err = [id |-> req[p], cause |-> obs[p].cause]
               /\ Empty(cat[p])
               /\ built[p] = 1)
        /\ pc[p] \in {"setid", "publish", "hit", "invoke", "release"}
           => obs[p].cause = "none"
        /\ AcqReturned(p) => (ret[p] # NoneModel /\ obs[p].err = NoError)

C18_Witness ==
    \E p \in AllProcs :
        /\ pc[p] = "end"
        /\ kind[p] = "cycle"
        /\ out[p] = "load_failed"
        /\ obs[p].cause = "from_pretrained"
        /\ obs[p].err = [id |-> req[p], cause |-> "from_pretrained"]
        /\ Empty(cat[p])

\* ----------------------------------------------------------------- C19
\* Context p has done the identity check of get_or_load_* and has not yet
\* returned, published or failed.
InTransition(p) == pc[p] \in {"hit", "load", "setid", "publish", "except"}

\* C19: at most one acquire at a time is inside a slot's compound
\* transition: no second acquire on a slot is past its identity check
\* while the first has neither published nor failed.
C19_SlotMutualExclusion ==
    \A p, q \in AllProcs :
        (p # q /\ cat[p] = cat[q]) => ~(InTransition(p) /\ InTransition(q))

\* ----------------------------------------------------------------- C20
\* C20: under any interleaving of acquires and releases on one slot, every
\* acquire of X that returns normally returns a non-null instance that was
\* constructed from X.
C20_ConcurrentAcquireReturnsRequested ==
    \A p \in AllProcs :
        AcqReturned(p) => (ret[p] # NoneModel /\ ret[p].id = req[p])

\* ----------------------------------------------------------------- C21
\* Use-cycle p holds a borrowed pipeline whose invocation has not completed.
Borrowing(p) == kind[p] = "cycle" /\ pc[p] = "invoke" /\ ret[p] # NoneModel

\* C21: a slot's instance is held by at most one caller at a time: no two
\* use-cycles borrow the same instance at once, and an instance that was
\* cached in its slot when it was borrowed is still in the slot while the
\* borrowing invocation has not completed.
C21_ExclusiveBorrow ==
    \A p \in AllProcs :
        Borrowing(p) =>
            /\ \A q \in AllProcs \ {p} : Borrowing(q) => ret[q] # ret[p]
            /\ snap[p][1] = ret[p] => model[cat[p]] = ret[p]

\* ----------------------------------------------------------------- C22
\* The pipelines of category c that exist: the one cached in the slot, the
\* ones under construction or built and not yet returned, and the ones
\* borrowed by use-cycles in flight.
LiveInstances(c) ==
    ({model[c]}
     \cup {inner[p] : p \in {q \in AllProcs : cat[q] = c /\ pc[q] \in {"setid", "publish", "except"}}}
     \cup {ret[p] : p \in {q \in AllProcs : cat[q] = c /\ pc[q] \in {"invoke", "release"}}})
    \ {NoneModel}

\* C22: in every reachable state at most one pipeline per category is
\* live, cached or borrowed, and so at most three in total.
C22_BoundedResidency ==
    /\ \A c \in Categories : Cardinality(LiveInstances(c)) <= 1
    /\ Cardinality(UNION {LiveInstances(c) : c \in Categories}) <= 3

\* ----------------------------------------------------------------- C27
\* C27: with no entry for the offload flag a pipeline is built as with
\* offload false, and with no entry for the retention strategy the loader
\* behaves as Keep: the built pipeline is cached and a use-cycle ends
\* without releasing it.
C27_SettingsDefaults ==
    \A p \in AllProcs :
        /\ (AcqReturned(p) /\ built[p] = 1 /\ obs[p].off = Absent)
           => (~ret[p].offload /\ ret[p].device = get_device(caps))
        /\ (/\ AcqReturned(p)
            /\ built[p] = 1
            /\ settings["model_load_retentation_strategy"] = Absent)
           => (model[cat[p]] = ret[p] /\ model_id[cat[p]] = req[p])
        /\ (/\ CycleEnded(p)
            /\ out[p] = "ok"
            /\ settings["model_load_retentation_strategy"] = Absent)
           => (model[cat[p]] = ret[p] /\ ret[p] # NoneModel)

C27_Witness ==
    \E p \in AllProcs :
        /\ CycleEnded(p)
        /\ out[p] = "ok"
        /\ built[p] = 1
        /\ cat[p] # "upscaler"
        /\ obs[p].off = Absent
        /\ settings["model_load_retentation_strategy"] = Absent
        /\ ~ret[p].offload
        /\ model[cat[p]] = ret[p]

\* ----------------------------------------------------------------- C28
\* C28: an acquire that builds a pipeline and reads retention Reload at
\* load time returns it without placing it in a slot, during or after the
\* acquire, and the acquire that follows on that category is not a cache
\* hit: it builds a pipeline of its own.
C28_ReloadNeverCaches ==
    \A p \in AllProcs :
        /\ (built[p] = 1 /\ obs[p].pub \in {"none", "reload"})
           => \A c \in Categories :
                  inner[p] # NoneModel => model[c] # inner[p]
        /\ (built[p] = 1 /\ obs[p].pub = "reload")
           => (/\ ret[p] = inner[p]
               /\ ret[p] # NoneModel
               /\ pc[p] \in {"invoke", "release", "end"}
               /\ model[cat[p]] = NoneModel)
        /\ (/\ AcqReturned(p)
            /\ LastAcquired(cat[p])
            /\ last.pub = "reload")
           => (built[p] = 1 /\ ret[p] # last.inst /\ ~res[p])

C28_Witness ==
    \E p \in AllProcs :
        /\ AcqReturned(p)
        /\ LastAcquired(cat[p])
        /\ last.pub = "reload"
        /\ last.inst # NoneModel
        /\ last.id = req[p]
        /\ obs[p].pub = "reload"
        /\ built[p] = 1
        /\ ret[p] # NoneModel
        /\ model[cat[p]] = NoneModel

\* ----------------------------------------------------------------- C30
\* C30: in every reachable state, interleaved concurrent acquires on one
\* slot included, a slot's instance, when present, is the pipeline that was
\* built from the slot's current identifier.
C30_IdentifierLabelsInstance ==
    \A c \in Categories :
        model[c] # NoneModel => model[c].id = model_id[c]

\* ----------------------------------------------------------------- C29
\* C29: on a cache miss the 4-bit quantized SD3 transformer is built if
\* and only if the requested identifier belongs to the SD3 family, in
\* every category.
C29_QuantizationOnlyForSD3 ==
    \A p \in AllProcs :
        (built[p] = 1 /\ obs[p].cause \in {"none", "configure"})
        => (obs[p].sd3 <=> IsSD3(req[p]))

\* ----------------------------------------------------------------- C23
\* C23: for every explicit token that is present and every assignment of
\* the four environment variables, resolve_hf_token returns the explicit
\* token and never the value of a variable.
C23_ExplicitTokenWins ==
    (call.fn = "resolve_hf_token" /\ call.arg \notin {NoneId, ""})
    => (call.tok = call.arg /\ \A v \in EnvNames : call.tok # env[v])

C23_Witness ==
    /\ call.fn = "resolve_hf_token"
    /\ call.arg = "explicit-token"
    /\ env["HUGGINGFACE_HUB_TOKEN"] = "env-token-1"
    /\ env["HF_TOKEN"] = "env-token-2"
    /\ call.tok = "explicit-token"

\* ----------------------------------------------------------------- C24
\* Positions in the probe order whose variable is set and non-empty.
NonEmptySources == {i \in 1..Len(EnvVars) : env[EnvVars[i]] \notin {NoneId, ""}}

\* C24: with no explicit token, resolve_hf_token returns the value of the
\* first variable in the order HUGGINGFACE_HUB_TOKEN, HF_HUB_TOKEN, HF_TOKEN,
\* HUGGINGFACE_TOKEN that is set and non-empty, and None when there is none.
C24_TokenFallbackOrder ==
    (call.fn = "resolve_hf_token" /\ call.arg \in {NoneId, ""})
    => IF NonEmptySources = {}
       THEN call.tok = NoneId
       ELSE \E i \in NonEmptySources :
                /\ \A j \in NonEmptySources : i <= j
                /\ call.tok = env[EnvVars[i]]

C24_Witness ==
    /\ call.fn = "resolve_hf_token"
    /\ call.arg = NoneId
    /\ env["HUGGINGFACE_HUB_TOKEN"] = NoneId
    /\ env["HF_HUB_TOKEN"] = ""
    /\ env["HF_TOKEN"] = "env-token-2"
    /\ env["HUGGINGFACE_TOKEN"] = "env-token-1"
    /\ call.tok = "env-token-2"

\* ----------------------------------------------------------------- C25
\* C25: get_device returns CUDA when CUDA is available, XPU when only XPU
\* is, CPU when neither is; a call that follows another get_device call
\* returns the same device, and a call changes no slot.
C25_DeviceSelection ==
    [][(call'.fn = "get_device" /\ call'.n # call.n) =>
          /\ caps.cuda => call'.dev = "cuda"
          /\ (~caps.cuda /\ caps.xpu) => call'.dev = "xpu"
          /\ (~caps.cuda /\ ~caps.xpu) => call'.dev = "cpu"
          /\ call.fn = "get_device" => call'.dev = call.dev
          /\ model' = model /\ model_id' = model_id]_vars

C25_Witness ==
    /\ call.fn = "get_device"
    /\ caps.cuda /\ caps.xpu
    /\ call.dev = "cuda"
    /\ model["text_to_image"] # NoneModel

\* ----------------------------------------------------------------- C26
\* C26: the quantization configuration has double quantization and
\* half-precision compute when the selected device is CUDA or XPU, and
\* quantization without double quantization and full-precision compute
\* when it is CPU.
C26_QuantizationPolicy ==
    call.fn = "get_bnb_4bit_config" =>
        /\ call.cfg.load_in_4bit
        /\ IF get_device(caps) \in {"cuda", "xpu"}
           THEN call.cfg.use_double_quant /\ call.cfg.compute_type = "float16"
           ELSE ~call.cfg.use_double_quant /\ call.cfg.compute_type = "float32"

\* ----------------------------------------------------------------- C31
\* C31: for one-request-at-a-time callers, every acquire of X that returns
\* normally returns a non-null pipeline of its category built from X; the
\* hit branch is taken only with that pipeline in the slot, an identifier
\* left without an instance leads to a construction, and no use-cycle
\* reaches its invocation with None.
C31_SequentialAcquireReturnsRequested ==
    \A p \in SeqProcs :
        /\ AcqReturned(p)
           => (/\ ret[p] # NoneModel
               /\ ret[p].id = req[p]
               /\ ret[p].cat = cat[p]
               /\ ~res[p] => built[p] = 1)
        /\ pc[p] = "hit"
           => (/\ model[cat[p]] # NoneModel
               /\ model[cat[p]].id = req[p])
        /\ pc[p] \in {"invoke", "release"} => ret[p] # NoneModel

C31_Witness ==
    \E p \in SeqProcs :
        /\ AcqReturned(p)
        /\ LastAcquired(cat[p])
        /\ last.id = req[p]
        /\ last.pub = "reload"
        /\ snap[p][2] = req[p]
        /\ built[p] = 1
        /\ ret[p] # NoneModel
        /\ ret[p].id = req[p]

\* ----------------------------------------------------------------- C32
\* C32: no step of an acquire or of the use-cycle around it, whether it
\* hits, loads, switches, fails or releases, changes the instance or the
\* identifier of a slot of another category.
C32_CategoriesIndependent ==
    [][\A p \in AllProcs :
          pc'[p] # pc[p] =>
              \A c \in Categories \ {cat[p], cat'[p]} :
                  model'[c] = model[c] /\ model_id'[c] = model_id[c]]_vars

C32_Witness ==
    \E p \in AllProcs :
        /\ AcqFailed(p)
        /\ Empty(cat[p])
        /\ \E c \in Categories \ {cat[p]} :
               model[c] # NoneModel /\ model_id[c] = model[c].id

\* ----------------------------------------------------------------- C34
\* C34: unload_model called with a pipeline that is not the instance of
\* any slot, as an administrative call or as the release of an uncached
\* pipeline at the end of a Reload use-cycle, changes no slot's instance or
\* identifier and completes normally.
C34_UnloadNonResidentNoop ==
    [][/\ (/\ AllIdle
           /\ last'.op = "unload_model"
           /\ last'.inst # NoneModel
           /\ \A c \in Categories : model[c] # last'.inst) =>
              (model' = model /\ model_id' = model_id /\ last'.out = "ok")
       /\ \A p \in AllProcs :
            (/\ pc[p] = "release"
             /\ pc'[p] = "end"
             /\ ret[p] # NoneModel
             /\ \A c \in Categories : model[c] # ret[p]) =>
              (model' = model /\ model_id' = model_id /\ out'[p] = "ok")]_vars

C34_Witness ==
    /\ AllIdle
    /\ last.op = "unload_model"
    /\ last.inst # NoneModel
    /\ ~last.res
    /\ model[last.cat] = NoneModel
    /\ model_id[last.cat] = last.inst.id

\* ----------------------------------------------------------------- C33
\* C33: a POST that sets use_cpu_offloading to a value outside
\* {true, false}, or model_load_retentation_strategy to a value outside
\* {"keep", "reload"}, is answered with an error and leaves the settings
\* store unchanged; the stored retention strategy is always absent, "keep"
\* or "reload".
C33_SettingsValidated ==
    [][(call'.fn = "set_setting" /\ call'.n # call.n) =>
          /\ (call'.key = "use_cpu_offloading" /\ call'.arg \notin {"true", "false"})
             => (call'.status = "400" /\ settings' = settings)
          /\ (/\ call'.key = "model_load_retentation_strategy"
              /\ call'.arg \notin {"keep", "reload"})
             => (call'.status = "400" /\ settings' = settings)
          /\ settings'["model_load_retentation_strategy"] \in {Absent, "keep", "reload"}]_vars

====
